---- MODULE Spec2Model ----
(***************************************************************************)
(* Inventory AI Master: the dashboard script app.py as a state machine.    *)
(*                                                                         *)
(* One script run is load_data -> validation -> sidebar -> filter ->       *)
(* segmentation -> forecasting -> restock alerts -> dashboard rendering.   *)
(* Streamlit re-executes the script from the top on every user             *)
(* interaction (Rerun); the @st.cache_data memo of load_data and the       *)
(* selectbox value survive between runs, everything else is rebuilt.       *)
(*                                                                         *)
(* Numbers.  Stock_Qty, Days_Since_Last_Sale and Lead_Time_Days are        *)
(* integers.  Cost_Price is held in cents (two decimals in the file).      *)
(* Floating-point columns (Avg_Daily_Sales, Days_Until_Stockout) are       *)
(* records [kind, num, den]: an exact fraction num/den with den > 0, or    *)
(* one of the IEEE specials inf, ninf, nan that the division can give.     *)
(*                                                                         *)
(* KMeans is a library call; fit_predict is modelled by its contract: it   *)
(* returns one label in 0..n_clusters-1 per row.  Every such labelling is  *)
(* allowed, which covers whatever the seeded library computes.             *)
(***************************************************************************)
EXTENDS Integers, Sequences, FiniteSets, TLC

VARIABLES
    file,                 \* inventory_data.csv on disk: [kind, rows]
    cache,                \* memo of load_data: <<>> or <<returned rows>>
    widget,               \* value held by the Category selectbox
    pc,                   \* position of the script run
    df,                   \* the DataFrame's rows (raw columns)
    selected_category,    \* value read from the selectbox in this run
    Cluster,              \* column df['Cluster']; <<>> while absent
    Status,               \* column df['Status']; <<>> while absent
    Days_Until_Stockout,  \* column df['Days_Until_Stockout']; <<>> while absent
    Restock_Status,       \* column df['Restock_Status']; <<>> while absent
    ui,                   \* what this run has put on the page
    executed              \* pipeline stages this run has executed, in order

vars == <<file, cache, widget, pc, df, selected_category, Cluster, Status,
          Days_Until_Stockout, Restock_Status, ui, executed>>

-----------------------------------------------------------------------------
(* Bounds of the model *)

\* largest number of rows of a file in the pipeline specification
MaxRows == 4

\* largest number of rows of a file in the row-wise specification
MaxRichRows == 2

-----------------------------------------------------------------------------
(* Program constants *)

n_clusters == 3
HotDays == 30
Sentinel == 999
TopDead == 8
TopForecast == 10

DEAD == "Dead Stock"
HOT == "Hot Item"
SLOW == "Slow Moving"
NORMAL == "Normal"

CRITICAL == "Critical Low"
WARNING == "Warning"
HEALTHY == "Healthy"

ALL == "All"

-----------------------------------------------------------------------------
(* Floating-point values *)

Num(n, d) == [kind |-> "num", num |-> n, den |-> d]
NaN == [kind |-> "nan", num |-> 0, den |-> 1]
PosInf == [kind |-> "inf", num |-> 0, den |-> 1]
NegInf == [kind |-> "ninf", num |-> 0, den |-> 1]

\* x < y as numpy compares float64 values: any comparison with nan is False
Lt(x, y) ==
    IF x.kind = "nan" \/ y.kind = "nan" THEN FALSE
    ELSE IF x.kind = "inf" \/ y.kind = "ninf" THEN FALSE
    ELSE IF x.kind = "ninf" \/ y.kind = "inf" THEN TRUE
    ELSE x.num * y.den < y.num * x.den

\* integer / float, element of Series.__truediv__: x/0 is +-inf, 0/0 is nan
TrueDiv(q, a) ==
    IF a.kind = "nan" THEN NaN
    ELSE IF a.kind = "inf" \/ a.kind = "ninf" THEN Num(0, 1)
    ELSE IF a.num = 0 THEN
        (IF q > 0 THEN PosInf ELSE IF q < 0 THEN NegInf ELSE NaN)
    ELSE IF a.num > 0 THEN Num(q * a.den, a.num)
    ELSE Num(0 - (q * a.den), 0 - a.num)

\* element of Series.replace([np.inf, -np.inf], v)
ReplaceInf(x, v) == IF x.kind = "inf" \/ x.kind = "ninf" THEN Num(v, 1) ELSE x

\* element of Series.fillna(v)
FillNa(x, v) == IF x.kind = "nan" THEN Num(v, 1) ELSE x

-----------------------------------------------------------------------------
(* Sequences *)

Range(s) == {s[i] : i \in 1..Len(s)}

RECURSIVE SumSeq(_)
SumSeq(s) == IF s = <<>> THEN 0 ELSE Head(s) + SumSeq(Tail(s))

\* boolean-mask selection df[mask]: the rows at the positions in P, in order
RECURSIVE Select(_, _, _)
Select(s, P, i) ==
    IF i > Len(s) THEN <<>>
    ELSE IF i \in P THEN <<s[i]>> \o Select(s, P, i + 1)
    ELSE Select(s, P, i + 1)

\* len(df[mask])
CountWhere(s, v) == Cardinality({i \in 1..Len(s) : s[i] = v})

\* DataFrame.head(n)
HeadN(s, n) == IF Len(s) <= n THEN s ELSE SubSeq(s, 1, n)

-----------------------------------------------------------------------------
(* The input file *)

Row(sku, cat, qty, days, cost, lead, avg) ==
    [SKU |-> sku, Category |-> cat, Stock_Qty |-> qty,
     Days_Since_Last_Sale |-> days, Cost_Price |-> cost,
     Lead_Time_Days |-> lead, Avg_Daily_Sales |-> avg]

\* SKU is the unique key of a row: the rows of a file are numbered 1..n
WithSKU(s) == [i \in 1..Len(s) |-> [s[i] EXCEPT !.SKU = i]]

\* row values of the pipeline specification
ClusterRows ==
    { Row(0, "A", 10, 10, 10000, 7, Num(10, 10)),
      Row(0, "A", 5, 40, 5000, 7, Num(10, 10)),
      Row(0, "B", 0, 90, 20000, 10, Num(0, 10)) }

\* row values of the row-wise specification
RichRows ==
    { Row(0, "A", qty, 10, 10000, lead, avg) :
        qty \in {0, 5, 8, 10, 12}, lead \in {7, 8},
        avg \in {NaN, Num(0, 10), Num(10, 10)} }

\* generate_csv.py: the seed is fixed, so every run writes the same rows, each
\* within the generator's ranges (Avg_Daily_Sales by Days_Since_Last_Sale band);
\* four rows stand for its n_products rows
generate_advanced_data ==
    WithSKU(<< Row(0, "A", 10, 10, 10000, 7, Num(10, 10)),
               Row(0, "A", 5, 40, 5000, 7, Num(10, 10)),
               Row(0, "B", 0, 90, 20000, 10, Num(0, 10)),
               Row(0, "B", 12, 5, 10000, 7, Num(20, 10)) >>)

SeqsUpTo(S, n) == UNION {[1..k -> S] : k \in 0..n}

Datasets(S, n) == {WithSKU(s) : s \in SeqsUpTo(S, n)}

\* states of inventory_data.csv: absent, not readable, not parsable as CSV,
\* or a CSV with a header line and the given rows (possibly none)
Files(S, n) ==
    {[kind |-> k, rows |-> <<>>] : k \in {"missing", "unreadable", "unparsable"}}
        \cup {[kind |-> "ok", rows |-> d] : d \in Datasets(S, n)}

\* pd.read_csv('inventory_data.csv'): the rows, or the exception it raises
read_csv(f) ==
    CASE f.kind = "ok" -> [exc |-> "none", rows |-> f.rows]
      [] f.kind = "missing" -> [exc |-> "FileNotFoundError", rows |-> <<>>]
      [] f.kind = "unreadable" -> [exc |-> "PermissionError", rows |-> <<>>]
      [] f.kind = "unparsable" -> [exc |-> "ParserError", rows |-> <<>>]

\* load_data without its try/except
load_data_uncaught(f) == read_csv(f)

\* body of load_data: only FileNotFoundError is caught
load_data(f) ==
    LET r == read_csv(f)
    IN  IF r.exc = "FileNotFoundError" THEN [exc |-> "none", rows |-> <<>>] ELSE r

\* df.empty, with the test inverted for non-empty frames dropped
IsEmptyNever(d) == FALSE

\* df.empty
IsEmpty(d) == Len(d) = 0

-----------------------------------------------------------------------------
(* Sidebar and filter *)

\* ['All'] + list(df['Category'].unique())
Options(d) == {ALL} \cup {d[i].Category : i \in 1..Len(d)}

\* the filter dropped: the frame is passed on whole
ApplyFilterNone(d, cat) == d

\* df[df['Category'] == selected_category].copy(), or df itself for 'All'
ApplyFilter(d, cat) ==
    IF cat # ALL
    THEN Select(d, {i \in 1..Len(d) : d[i].Category = cat}, 1)
    ELSE d

-----------------------------------------------------------------------------
(* Logic 1: segmentation *)

\* KMeans(n_clusters=3, random_state=42).fit_predict(X): the labellings the
\* call can return for a frame of n rows
Labellings(n) == [1..n -> 0..(n_clusters - 1)]

Members(labels, k) == {i \in 1..Len(labels) : labels[i] = k}

\* df.groupby('Cluster')['Days_Since_Last_Sale'].mean(): one entry per label
\* that occurs, the mean held as the fraction sum/count (count > 0)
GroupMeans(d, labels) ==
    [k \in {labels[i] : i \in 1..Len(labels)} |->
        [sum |-> SumSeq([i \in 1..Len(d) |->
                     IF labels[i] = k THEN d[i].Days_Since_Last_Sale ELSE 0]),
         count |-> Cardinality(Members(labels, k))]]

\* mean x >= mean y
MeanGe(x, y) == x.sum * y.count >= y.sum * x.count

\* Series.idxmin(): the first label, in ascending order, whose mean is the minimum
IdxMin(m) ==
    LET best == {j \in DOMAIN m : \A k \in DOMAIN m : MeanGe(m[k], m[j])}
    IN  CHOOSE j \in best : \A k \in best : j <= k

\* Series.idxmax(): the first label, in ascending order, whose mean is the maximum
IdxMax(m) ==
    LET best == {j \in DOMAIN m : \A k \in DOMAIN m : MeanGe(m[j], m[k])}
    IN  CHOOSE j \in best : \A k \in best : j <= k

\* dead_cluster = df.groupby('Cluster')['Days_Since_Last_Sale'].mean().idxmax()
DeadCluster(d, labels) == IdxMax(GroupMeans(d, labels))

\* the inner np.where tested first
StatusOfHotFirst(r, label, dead) ==
    IF r.Days_Since_Last_Sale < HotDays THEN HOT
    ELSE IF label = dead THEN DEAD
    ELSE SLOW

\* np.where(Cluster == dead_cluster, Dead, np.where(Days < 30, Hot, Slow))
StatusOf(r, label, dead) ==
    IF label = dead THEN DEAD
    ELSE IF r.Days_Since_Last_Sale < HotDays THEN HOT
    ELSE SLOW

\* the size test with >= in place of >
NeedsClusteringGe(d) == Len(d) >= 3

\* len(df) > 3
NeedsClustering(d) == Len(d) > 3

-----------------------------------------------------------------------------
(* Logic 2 and 3: forecasting and restock alerts *)

\* the division with only the infinities replaced
RunwayNoFillna(r) ==
    ReplaceInf(TrueDiv(r.Stock_Qty, r.Avg_Daily_Sales), Sentinel)

\* 0 substituted in place of 999
RunwayZero(r) ==
    FillNa(ReplaceInf(TrueDiv(r.Stock_Qty, r.Avg_Daily_Sales), 0), 0)

\* (Stock_Qty / Avg_Daily_Sales).replace([inf, -inf], 999).fillna(999)
Runway(r) ==
    FillNa(ReplaceInf(TrueDiv(r.Stock_Qty, r.Avg_Daily_Sales), Sentinel), Sentinel)

\* the thresholds compared with <= in place of <
RestockOfLe(d, lead) ==
    IF ~Lt(Num(lead, 1), d) /\ d.kind = "num" THEN CRITICAL
    ELSE IF ~Lt(Num(3 * lead, 2), d) /\ d.kind = "num" THEN WARNING
    ELSE HEALTHY

\* np.where(D < Lead, Critical, np.where(D < Lead * 1.5, Warning, Healthy))
RestockOf(d, lead) ==
    IF Lt(d, Num(lead, 1)) THEN CRITICAL
    ELSE IF Lt(d, Num(3 * lead, 2)) THEN WARNING
    ELSE HEALTHY

-----------------------------------------------------------------------------
(* Dashboard *)

\* sort_values on a short column is an insertion sort: row x goes before the
\* first row it sorts strictly before, so rows that compare equal keep their
\* order.  before[i, j] tells whether row i sorts strictly before row j
RECURSIVE Insert(_, _, _, _)
Insert(x, s, before, i) ==
    IF i > Len(s) THEN Append(s, x)
    ELSE IF before[x, s[i]]
         THEN SubSeq(s, 1, i - 1) \o <<x>> \o SubSeq(s, i, Len(s))
    ELSE Insert(x, s, before, i + 1)

RECURSIVE SortFrom(_, _, _, _)
SortFrom(n, before, i, acc) ==
    IF i > n THEN acc ELSE SortFrom(n, before, i + 1, Insert(i, acc, before, 1))

\* s in the order sort_values gives
StableSort(s, before) ==
    LET order == SortFrom(Len(s), before, 1, <<>>)
    IN  [p \in 1..Len(s) |-> s[order[p]]]

\* df[mask]: the positions, from i on, at which the boolean mask holds
RECURSIVE Where(_, _)
Where(mask, i) ==
    IF i > Len(mask) THEN <<>>
    ELSE IF mask[i] THEN <<i>> \o Where(mask, i + 1)
    ELSE Where(mask, i + 1)

\* float order of sort_values: ascending, NaN last
FloatBefore(x, y) == x.kind # "nan" /\ (y.kind = "nan" \/ Lt(x, y))

\* the unit count summed, the price left out
TotalValUnits(d) == SumSeq([i \in 1..Len(d) |-> d[i].Stock_Qty])

\* (df['Stock_Qty'] * df['Cost_Price']).sum()
TotalVal(d) == SumSeq([i \in 1..Len(d) |-> d[i].Stock_Qty * d[i].Cost_Price])

\* the four KPI cards
Metrics(d, status, restock) ==
    [total_skus |-> Len(d),
     dead_count |-> CountWhere(status, DEAD),
     critical_count |-> CountWhere(restock, CRITICAL),
     total_val |-> TotalVal(d)]

\* df[df['Status'] == Dead].sort_values('Stock_Qty', ascending=False).head(8)
DeadStockDf(d, status) ==
    LET dead == Where([i \in 1..Len(status) |-> status[i] = DEAD], 1)
        n == Len(dead)
        before == [i \in 1..n, j \in 1..n |->
                      d[dead[i]].Stock_Qty > d[dead[j]].Stock_Qty]
    IN  HeadN(StableSort(dead, before), TopDead)

\* df[df['Status'] == Dead][[...]]
DisplayDf(status) == Where([i \in 1..Len(status) |-> status[i] = DEAD], 1)

\* df[df['Restock_Status'] != Healthy].sort_values('Days_Until_Stockout')
CriticalStock(runway, restock) ==
    LET bad == Where([i \in 1..Len(restock) |-> restock[i] # HEALTHY], 1)
        n == Len(bad)
        before == [i \in 1..n, j \in 1..n |->
                      FloatBefore(runway[bad[i]], runway[bad[j]])]
    IN  StableSort(bad, before)

BlankPage ==
    [exception |-> "none", error |-> FALSE, options |-> {}, metrics |-> <<>>,
     scatter |-> <<>>, dead_stock_df |-> <<>>, display_df |-> <<>>,
     critical_stock |-> <<>>, fig_forecast |-> <<>>, success |-> FALSE]

-----------------------------------------------------------------------------
(* The script run *)

InitOver(F) ==
    /\ file \in F
    /\ cache = <<>>
    /\ widget = ALL
    /\ pc = "load"
    /\ df = <<>>
    /\ selected_category = ALL
    /\ Cluster = <<>>
    /\ Status = <<>>
    /\ Days_Until_Stockout = <<>>
    /\ Restock_Status = <<>>
    /\ ui = BlankPage
    /\ executed = <<>>

Init == InitOver(Files(ClusterRows, MaxRows))

InitRows == InitOver(Files(RichRows, MaxRichRows))

\* df = load_data(), memoized by @st.cache_data; an exception is not memoized
\* and ends the run
LoadData ==
    /\ pc = "load"
    /\ executed' = Append(executed, "load")
    /\ IF cache # <<>>
       THEN /\ df' = cache[1]
            /\ pc' = "validate"
            /\ UNCHANGED <<cache, ui>>
       ELSE LET r == load_data(file)
            IN  IF r.exc = "none"
                THEN /\ df' = r.rows
                     /\ cache' = <<r.rows>>
                     /\ pc' = "validate"
                     /\ UNCHANGED ui
                ELSE /\ pc' = "crashed"
                     /\ ui' = [ui EXCEPT !.exception = r.exc]
                     /\ UNCHANGED <<df, cache>>
    /\ UNCHANGED <<file, widget, selected_category, Cluster, Status,
                   Days_Until_Stockout, Restock_Status>>

\* if df.empty: st.error(...); st.stop()
Validate ==
    /\ pc = "validate"
    /\ IF IsEmpty(df)
       THEN /\ ui' = [ui EXCEPT !.error = TRUE]
            /\ pc' = "stopped"
       ELSE /\ pc' = "sidebar"
            /\ UNCHANGED ui
    /\ UNCHANGED <<file, cache, widget, df, selected_category, Cluster, Status,
                   Days_Until_Stockout, Restock_Status, executed>>

\* selected_category = st.selectbox("Category:", options)
Sidebar ==
    /\ pc = "sidebar"
    /\ selected_category' = (IF widget \in Options(df) THEN widget ELSE ALL)
    /\ widget' = selected_category'
    /\ ui' = [ui EXCEPT !.options = Options(df)]
    /\ pc' = "filter"
    /\ UNCHANGED <<file, cache, df, Cluster, Status, Days_Until_Stockout,
                   Restock_Status, executed>>

\* Apply Filter
Filter ==
    /\ pc = "filter"
    /\ df' = ApplyFilter(df, selected_category)
    /\ executed' = Append(executed, "filter")
    /\ pc' = "segment"
    /\ UNCHANGED <<file, cache, widget, selected_category, Cluster, Status,
                   Days_Until_Stockout, Restock_Status, ui>>

\* Logic 1: Segmentation (K-Means)
Segment ==
    /\ pc = "segment"
    /\ IF NeedsClustering(df)
       THEN \E labels \in Labellings(Len(df)) :
                LET dead_cluster == DeadCluster(df, labels)
                IN  /\ Cluster' = labels
                    /\ Status' = [i \in 1..Len(df) |->
                                     StatusOf(df[i], labels[i], dead_cluster)]
       ELSE /\ Cluster' = <<>>
            /\ Status' = [i \in 1..Len(df) |-> NORMAL]
    /\ executed' = Append(executed, "classify")
    /\ pc' = "forecast"
    /\ UNCHANGED <<file, cache, widget, df, selected_category,
                   Days_Until_Stockout, Restock_Status, ui>>

\* Logic 2: Forecasting (Stock Runway)
Forecast ==
    /\ pc = "forecast"
    /\ Days_Until_Stockout' = [i \in 1..Len(df) |-> Runway(df[i])]
    /\ executed' = Append(executed, "forecast")
    /\ pc' = "alert"
    /\ UNCHANGED <<file, cache, widget, df, selected_category, Cluster, Status,
                   Restock_Status, ui>>

\* Logic 3: Restock Alerts
Alert ==
    /\ pc = "alert"
    /\ Restock_Status' = [i \in 1..Len(df) |->
                             RestockOf(Days_Until_Stockout[i], df[i].Lead_Time_Days)]
    /\ executed' = Append(executed, "alert")
    /\ pc' = "render"
    /\ UNCHANGED <<file, cache, widget, df, selected_category, Cluster, Status,
                   Days_Until_Stockout, ui>>

\* MAIN DASHBOARD UI: KPI cards, the two tabs
Render ==
    /\ pc = "render"
    /\ LET critical_stock == CriticalStock(Days_Until_Stockout, Restock_Status)
           dead_stock_df == DeadStockDf(df, Status)
           display_df == DisplayDf(Status)
       IN  ui' = [ui EXCEPT
                    !.metrics = <<Metrics(df, Status, Restock_Status)>>,
                    !.scatter = [i \in 1..Len(df) |-> df[i].SKU],
                    !.dead_stock_df = [i \in 1..Len(dead_stock_df) |->
                                          df[dead_stock_df[i]].SKU],
                    !.display_df = [i \in 1..Len(display_df) |->
                                       df[display_df[i]].SKU],
                    !.critical_stock = [i \in 1..Len(critical_stock) |->
                                           df[critical_stock[i]].SKU],
                    !.fig_forecast = [i \in 1..Len(HeadN(critical_stock, TopForecast)) |->
                                         df[critical_stock[i]].SKU],
                    !.success = (critical_stock = <<>>)]
    /\ executed' = Append(executed, "aggregate")
    /\ pc' = "done"
    /\ UNCHANGED <<file, cache, widget, df, selected_category, Cluster, Status,
                   Days_Until_Stockout, Restock_Status>>

\* a user interaction re-executes the script from the top: a new selectbox
\* value when the sidebar is on the page, a page refresh otherwise
Rerun ==
    /\ pc \in {"done", "stopped", "crashed"}
    /\ IF pc = "done"
       THEN \E c \in ui.options : widget' = c
       ELSE UNCHANGED widget
    /\ pc' = "load"
    /\ df' = <<>>
    /\ selected_category' = ALL
    /\ Cluster' = <<>>
    /\ Status' = <<>>
    /\ Days_Until_Stockout' = <<>>
    /\ Restock_Status' = <<>>
    /\ ui' = BlankPage
    /\ executed' = <<>>
    /\ UNCHANGED <<file, cache>>

\* the operator runs generate_csv.py, as the error page asks: the file is
\* written anew
GenerateCsv ==
    /\ pc \in {"stopped", "crashed"}
    /\ file' = [kind |-> "ok", rows |-> generate_advanced_data]
    /\ UNCHANGED <<cache, widget, pc, df, selected_category, Cluster, Status,
                   Days_Until_Stockout, Restock_Status, ui, executed>>

Next ==
    \/ LoadData
    \/ Validate
    \/ Sidebar
    \/ Filter
    \/ Segment
    \/ Forecast
    \/ Alert
    \/ Render
    \/ Rerun
    \/ GenerateCsv

Spec == Init /\ [][Next]_vars

SpecRows == InitRows /\ [][Next]_vars

-----------------------------------------------------------------------------
(* Vocabulary of the properties *)

AfterSegment == pc \in {"forecast", "alert", "render", "done"}
AfterForecast == pc \in {"alert", "render", "done"}
AfterAlert == pc \in {"render", "done"}

Rows == 1..Len(df)

Pipeline == <<"load", "filter", "classify", "forecast", "alert", "aggregate">>

IsPrefix(s, t) == Len(s) <= Len(t) /\ \A i \in 1..Len(s) : s[i] = t[i]

\* the rows of the loaded data that the selected category keeps
View == {r \in Range(cache[1]) :
            selected_category = ALL \/ r.Category = selected_category}

RECURSIVE ValueOf(_)
ValueOf(S) ==
    IF S = {} THEN 0
    ELSE LET r == CHOOSE x \in S : TRUE
         IN  r.Stock_Qty * r.Cost_Price + ValueOf(S \ {r})

RECURSIVE DaysOf(_)
DaysOf(S) ==
    IF S = {} THEN 0
    ELSE LET i == CHOOSE x \in S : TRUE
         IN  df[i].Days_Since_Last_Sale + DaysOf(S \ {i})

Group(k) == {i \in Rows : Cluster[i] = k}

\* mean Days_Since_Last_Sale of group j >= that of group k (both non-empty)
GroupMeanGe(j, k) ==
    DaysOf(Group(j)) * Cardinality(Group(k)) >= DaysOf(Group(k)) * Cardinality(Group(j))

Present == {k \in 0..(n_clusters - 1) : Group(k) # {}}

ZeroSales(r) == r.Avg_Daily_Sales.kind = "num" /\ r.Avg_Daily_Sales.num = 0
PositiveSales(r) == r.Avg_Daily_Sales.kind = "num" /\ r.Avg_Daily_Sales.num > 0

-----------------------------------------------------------------------------
(* C1: once the forecaster has run, every row of the current row set has a  *)
(* finite Days_Until_Stockout >= 0: Stock_Qty / Avg_Daily_Sales when        *)
(* Avg_Daily_Sales > 0, and the sentinel 999 when Avg_Daily_Sales is 0      *)
(* (whatever Stock_Qty is) or missing; the column is complete, no row fails *)
C1_RunwayDefined ==
    AfterForecast =>
        /\ Len(Days_Until_Stockout) = Len(df)
        /\ \A i \in Rows :
              LET r == df[i]
                  D == Days_Until_Stockout[i]
              IN  /\ D.kind = "num" /\ D.den > 0 /\ D.num >= 0
                  /\ PositiveSales(r) =>
                        D.num * r.Avg_Daily_Sales.num
                            = r.Stock_Qty * r.Avg_Daily_Sales.den * D.den
                  /\ (ZeroSales(r) \/ r.Avg_Daily_Sales.kind = "nan") =>
                        D.num = Sentinel * D.den

\* a frame with an undefined division (0 / 0) and an ordinary one (5 / 1.0)
C1_Witness ==
    /\ pc = "alert"
    /\ \E i, j \in Rows :
          /\ ZeroSales(df[i]) /\ df[i].Stock_Qty = 0
          /\ Days_Until_Stockout[i] = Num(Sentinel, 1)
          /\ PositiveSales(df[j]) /\ df[j].Stock_Qty = 5
          /\ Days_Until_Stockout[j].num = 5 * Days_Until_Stockout[j].den

-----------------------------------------------------------------------------
(* C2: every row's Restock_Status is one of Critical Low, Warning, Healthy, *)
(* and is fixed by that row's own Days_Until_Stockout D and Lead_Time_Days  *)
(* L: Critical Low iff D < L, Warning iff L <= D < 1.5 L, Healthy iff       *)
(* D >= 1.5 L; (5, 7) is Critical Low, (10, 7) Warning, (12, 7) Healthy     *)
C2_RestockThresholds ==
    AfterAlert =>
        /\ Len(Restock_Status) = Len(df)
        /\ \A i \in Rows :
              LET D == Days_Until_Stockout[i]
                  L == df[i].Lead_Time_Days
                  st == Restock_Status[i]
              IN  /\ st \in {CRITICAL, WARNING, HEALTHY}
                  /\ st = CRITICAL <=> D.num < L * D.den
                  /\ st = WARNING <=>
                        (L * D.den <= D.num /\ 2 * D.num < 3 * L * D.den)
                  /\ st = HEALTHY <=> 2 * D.num >= 3 * L * D.den
                  /\ (D.num = 5 * D.den /\ L = 7) => st = CRITICAL
                  /\ (D.num = 10 * D.den /\ L = 7) => st = WARNING
                  /\ (D.num = 12 * D.den /\ L = 7) => st = HEALTHY

\* two rows with the same lead time on either side of the 1.5 x threshold
C2_Witness ==
    /\ pc = "render"
    /\ \E i, j \in Rows :
          /\ df[i].Lead_Time_Days = 7 /\ df[j].Lead_Time_Days = 7
          /\ Days_Until_Stockout[i] = Num(100, 10) /\ Restock_Status[i] = WARNING
          /\ Days_Until_Stockout[j] = Num(120, 10) /\ Restock_Status[j] = HEALTHY

-----------------------------------------------------------------------------
(* C10: a row with Avg_Daily_Sales = 0 and Lead_Time_Days x 1.5 <= 999 is   *)
(* Healthy, also when Stock_Qty = 0; it is not counted in the               *)
(* critical-restock KPI and is not in the non-healthy restock list.  A row  *)
(* with Stock_Qty = 0 and Avg_Daily_Sales > 0 is Critical Low               *)
C10_ZeroSalesHealthy ==
    /\ AfterAlert =>
          \A i \in Rows :
              /\ (ZeroSales(df[i]) /\ 3 * df[i].Lead_Time_Days <= 2 * Sentinel)
                    => Restock_Status[i] = HEALTHY
              /\ (PositiveSales(df[i]) /\ df[i].Stock_Qty = 0)
                    => Restock_Status[i] = CRITICAL
    /\ pc = "done" =>
          /\ \A i \in Rows :
                ZeroSales(df[i]) => df[i].SKU \notin Range(ui.critical_stock)
          /\ ui.metrics[1].critical_count =
                Cardinality({i \in Rows :
                    ~ZeroSales(df[i]) /\ Restock_Status[i] = CRITICAL})

\* an out-of-stock row without sales beside an out-of-stock row with sales
C10_Witness ==
    /\ pc = "done"
    /\ \E i, j \in Rows :
          /\ ZeroSales(df[i]) /\ df[i].Stock_Qty = 0
          /\ Restock_Status[i] = HEALTHY
          /\ PositiveSales(df[j]) /\ df[j].Stock_Qty = 0
          /\ Restock_Status[j] = CRITICAL
          /\ ui.critical_stock = <<df[j].SKU>>
          /\ ui.metrics[1].critical_count = 1

-----------------------------------------------------------------------------
(* C3: when the classifier runs on more than 3 rows, exactly one cluster    *)
(* group is labelled Dead Stock: all of its rows and no row of any other    *)
(* group are Dead Stock, its mean Days_Since_Last_Sale is >= the mean of    *)
(* every other group, and among groups with that mean it has the lowest     *)
(* index; so at least one row is Dead Stock                                 *)
C3_OneDeadGroup ==
    (AfterSegment /\ Len(df) > 3) =>
        /\ Len(Cluster) = Len(df)
        /\ \E g \in Present :
              /\ \A i \in Rows : Status[i] = DEAD <=> Cluster[i] = g
              /\ \A k \in Present : GroupMeanGe(g, k)
              /\ \A k \in Present : GroupMeanGe(k, g) => g <= k
        /\ \E i \in Rows : Status[i] = DEAD

\* three groups, the two highest means tied, the lower index taken
C3_Witness ==
    /\ pc = "forecast"
    /\ Len(df) > 3
    /\ Present = {0, 1, 2}
    /\ GroupMeanGe(1, 2) /\ GroupMeanGe(2, 1) /\ ~GroupMeanGe(0, 1)
    /\ \A i \in Rows : Status[i] = DEAD <=> Cluster[i] = 1

-----------------------------------------------------------------------------
(* C4: on 3 or fewer rows clustering is skipped, no Cluster value is        *)
(* assigned and every row is Normal whatever its Stock_Qty and              *)
(* Days_Since_Last_Sale; on more than 3 rows no row is Normal               *)
C4_SmallSetNormal ==
    AfterSegment =>
        /\ Len(Status) = Len(df)
        /\ Len(df) <= 3 =>
              (Cluster = <<>> /\ \A i \in Rows : Status[i] = NORMAL)
        /\ Len(df) > 3 =>
              (Len(Cluster) = Len(df) /\ \A i \in Rows : Status[i] # NORMAL)

\* exactly 3 rows that differ in Stock_Qty and Days_Since_Last_Sale
C4_Witness ==
    /\ pc = "forecast"
    /\ Len(df) = 3
    /\ Cluster = <<>>
    /\ \E i, j \in Rows :
          /\ df[i].Stock_Qty # df[j].Stock_Qty
          /\ df[i].Days_Since_Last_Sale < HotDays
          /\ df[j].Days_Since_Last_Sale >= HotDays
    /\ \A i \in Rows : Status[i] = NORMAL

-----------------------------------------------------------------------------
(* C9: on more than 3 rows, a row outside the dead-stock group is Hot Item  *)
(* when its Days_Since_Last_Sale < 30 and Slow Moving when >= 30; a row of  *)
(* the dead-stock group is Dead Stock even when its value is < 30           *)
C9_HotSlowOutsideDead ==
    (AfterSegment /\ Len(df) > 3) =>
        LET dead == DeadCluster(df, Cluster)
        IN  \A i \in Rows :
              /\ (Cluster[i] # dead /\ df[i].Days_Since_Last_Sale < HotDays)
                    => Status[i] = HOT
              /\ (Cluster[i] # dead /\ df[i].Days_Since_Last_Sale >= HotDays)
                    => Status[i] = SLOW
              /\ Cluster[i] = dead => Status[i] = DEAD

\* a recent row in the dead group, a recent and an old row outside it
C9_Witness ==
    /\ pc = "forecast"
    /\ Len(df) > 3
    /\ \E i, j, k \in Rows :
          /\ df[i].Days_Since_Last_Sale < HotDays /\ Status[i] = DEAD
          /\ df[j].Days_Since_Last_Sale < HotDays /\ Status[j] = HOT
          /\ df[k].Days_Since_Last_Sale >= HotDays /\ Status[k] = SLOW

-----------------------------------------------------------------------------
(* C6: when the loader returns an empty row set the run shows the 'run      *)
(* generate_csv.py first' message and halts: filter, classifier,            *)
(* forecaster, alerter and aggregation do not run and no KPI, chart or      *)
(* table is on the page.  Otherwise the stages run once each in the order   *)
(* filter, classify, forecast, alert, aggregate                             *)
C6_HaltBeforePipeline ==
    /\ IsPrefix(executed, Pipeline)
    /\ pc \in {"sidebar", "filter", "segment", "forecast", "alert", "render", "done"}
          => df # <<>>
    /\ ui.error <=> pc = "stopped"
    /\ pc = "stopped" =>
          /\ df = <<>>
          /\ executed = <<"load">>
          /\ Status = <<>> /\ Days_Until_Stockout = <<>> /\ Restock_Status = <<>>
          /\ ui.metrics = <<>> /\ ui.scatter = <<>> /\ ui.fig_forecast = <<>>
          /\ ui.dead_stock_df = <<>> /\ ui.display_df = <<>>
          /\ ui.critical_stock = <<>> /\ ~ui.success
    /\ pc = "done" => (executed = Pipeline /\ ui.metrics # <<>>)

\* the file is absent and the run has halted on the message
C6_Witness ==
    /\ pc = "stopped"
    /\ file.kind = "missing"
    /\ ui.error
    /\ executed = <<"load">>

-----------------------------------------------------------------------------
(* C7: the category filter is applied before clustering, so Status is       *)
(* computed from the filtered row set only: the rows classified are exactly *)
(* the loaded rows of the selected category, all Normal when there are 3 or *)
(* fewer of them and clustered among themselves otherwise.  Hence a SKU     *)
(* can have one Status under a category and another under 'All'             *)
C7_FilterRelative ==
    AfterSegment =>
        /\ Range(df) = View
        /\ Len(df) = Cardinality(View)
        /\ Cardinality(View) <= 3 <=> (\A i \in Rows : Status[i] = NORMAL)
        /\ Cardinality(View) > 3 =>
              \E g \in Present :
                  /\ \A i \in Rows : Status[i] = DEAD <=> Cluster[i] = g
                  /\ \A k \in Present : GroupMeanGe(g, k)

\* a SKU whose Status under its category is one that no clustering of the
\* whole file gives it under 'All'
C7_Witness ==
    /\ pc = "done"
    /\ selected_category # ALL
    /\ Len(cache[1]) > 3
    /\ \E i \in Rows :
          \A labels \in Labellings(Len(cache[1])) :
              Status[i] # StatusOf(cache[1][df[i].SKU], labels[df[i].SKU],
                                   DeadCluster(cache[1], labels))

-----------------------------------------------------------------------------
(* C8: the total inventory value is the sum of Stock_Qty x Cost_Price over  *)
(* exactly the loaded rows that the selected category keeps (all rows for   *)
(* 'All'), whatever their Status and Restock_Status; rows (10, 100.00) and  *)
(* (5, 50.00) give 1250.00                                                  *)
C8_TotalValue ==
    pc = "done" =>
        /\ ui.metrics[1].total_val = ValueOf(View)
        /\ ui.metrics[1].total_skus = Cardinality(View)
        /\ (/\ Len(df) = 2
            /\ df[1].Stock_Qty = 10 /\ df[1].Cost_Price = 10000
            /\ df[2].Stock_Qty = 5 /\ df[2].Cost_Price = 5000)
              => ui.metrics[1].total_val = 125000

\* category A holds the two rows of the example, the file holds more
C8_Witness ==
    /\ pc = "done"
    /\ selected_category = "A"
    /\ Len(cache[1]) > 2
    /\ Len(df) = 2
    /\ df[1].Stock_Qty = 10 /\ df[1].Cost_Price = 10000
    /\ df[2].Stock_Qty = 5 /\ df[2].Cost_Price = 5000
    /\ Restock_Status[1] # Restock_Status[2]
    /\ ui.metrics[1].total_val = 125000

-----------------------------------------------------------------------------
(* C5: the dataset loader never raises: every failure while loading the     *)
(* file, a missing file and an unreadable or unparsable one alike, becomes  *)
(* an empty row set                                                         *)
C5_LoaderNeverRaises == pc # "crashed" /\ ui.exception = "none"

(* C5 as amended: the loader turns a file that is missing when it is read   *)
(* into an empty row set, on which the caller halts with the message; an    *)
(* unreadable or unparsable file makes the loader raise, and the run ends   *)
(* on that exception                                                        *)
C5_OnlyMissingFileSwallowed ==
    /\ [](/\ ui.exception \in {"none", "PermissionError", "ParserError"}
          /\ pc = "crashed" <=> ui.exception # "none")
    /\ [][(pc = "load" /\ cache = <<>>) =>
             /\ file.kind = "missing" =>
                   (pc' = "validate" /\ df' = <<>> /\ ui'.exception = "none")
             /\ file.kind \in {"unreadable", "unparsable"} =>
                   (pc' = "crashed" /\ ui'.exception # "none")
             /\ file.kind = "ok" => (pc' = "validate" /\ df' = file.rows)]_vars
    /\ [][(pc = "validate" /\ df = <<>>) => (pc' = "stopped" /\ ui'.error)]_vars

\* the loader has returned an empty row set for the absent file
C5_Witness ==
    /\ pc = "validate"
    /\ file.kind = "missing"
    /\ df = <<>>
    /\ cache = << <<>> >>
    /\ ui.exception = "none"

====
